---- MODULE Spec2Model ----
(***************************************************************************)
(* The memory subsystem of the interpreter (src/src/memory.rs): the        *)
(* allocation table, the checked byte accessors, the integer and pointer   *)
(* codecs and the relocation side table.                                   *)
(*                                                                         *)
(* Byte order: NativeEndian is modelled as little-endian (x86-64 host).    *)
(* Integers of the model checker are 32 bits wide; the codecs below work   *)
(* digit by digit so that they are exact for every value they are given,   *)
(* and a read whose decoded value does not fit is outside the model's      *)
(* inputs (InModelRange).                                                  *)
(***************************************************************************)
EXTENDS Integers, Sequences, FiniteSets, TLC

VARIABLES alloc_map, next_id, pointer_size, pc, call, result, old_map, old_next, nops

vars == <<alloc_map, next_id, pointer_size, pc, call, result, old_map, old_next, nops>>

(***************************************************************************)
(* Bounds of the model and the inputs drawn by the actions.                *)
(***************************************************************************)
MaxAllocs == 2

MaxOps == 2

size_of_usize == 8

AllocSizes == {0, 17}

Offsets == {0, 8, 9, 16}

Widths == {1, 2, 4, 8}

CopySizes == {0, 8, 9, 17}

IntVals == {-2, 258}

UintVals == {254}

ByteStrings == {<< >>, <<1, 2, 3, 4, 5, 6, 7, 8>>}

AllocIds == 0..MaxAllocs

Pointers == [alloc_id : AllocIds, offset : Offsets]

(***************************************************************************)
(* Values: Pointer, Allocation, EvalResult.                                *)
(***************************************************************************)
Pointer(id, off) == [alloc_id |-> id, offset |-> off]

PtrVals == {Pointer(0, 0), Pointer(1, 258), Pointer(MaxAllocs, 65539)}

Allocation(bytes, relocations) == [bytes |-> bytes, relocations |-> relocations]

EmptyRelocations == [k \in {} |-> 0]

Ok(v) == [err |-> "Ok", val |-> v]

Err(e) == [err |-> e, val |-> 0]

IsOk(r) == r.err = "Ok"

(***************************************************************************)
(* byteorder codecs, little-endian.                                        *)
(***************************************************************************)
RECURSIVE write_le(_, _)
write_le(n, nbytes) ==
    IF nbytes = 0 THEN << >>
    ELSE <<n % 256>> \o write_le(n \div 256, nbytes - 1)

RECURSIVE read_uint_le(_)
read_uint_le(bytes) ==
    IF bytes = << >> THEN 0
    ELSE Head(bytes) + 256 * read_uint_le(Tail(bytes))

RECURSIVE read_int_le(_)
read_int_le(bytes) ==
    IF Len(bytes) = 1
    THEN (IF bytes[1] >= 128 THEN bytes[1] - 256 ELSE bytes[1])
    ELSE Head(bytes) + 256 * read_int_le(Tail(bytes))

\* n is representable as an unsigned (signed) integer of nbytes bytes
FitsUint(n, nbytes) == n >= 0 /\ write_le(n, 8) = write_le(n, nbytes) \o [i \in 1..(8 - nbytes) |-> 0]

FitsInt(n, nbytes) ==
    /\ write_le(n, 8) = write_le(n, nbytes) \o [i \in 1..(8 - nbytes) |-> IF n < 0 THEN 255 ELSE 0]
    /\ write_le(n, nbytes)[nbytes] >= 128 <=> n < 0

\* the decoded value of these bytes fits the model checker's integers
InModelRange(bytes, signed) ==
    LET w == Len(bytes)
        neg == signed /\ w > 0 /\ bytes[w] >= 128
    IN  /\ \A i \in 1..w : i > 4 => bytes[i] = (IF neg THEN 255 ELSE 0)
        /\ w >= 4 => (bytes[4] >= 128 <=> neg)

(***************************************************************************)
(* impl Allocation                                                         *)
(***************************************************************************)
saturating_sub(a, b) == IF a >= b THEN a - b ELSE 0

check_bounds(alloc, start, end) ==
    IF start <= Len(alloc.bytes) /\ end <= Len(alloc.bytes)
    THEN "Ok"
    ELSE "PointerOutOfBounds"

\* variant: only the keys inside the range are counted, not the pointers reaching into it
count_overlapping_relocations_inside(alloc, start, end) ==
    Cardinality({k \in DOMAIN alloc.relocations : start <= k /\ k < end})

count_overlapping_relocations(alloc, start, end) ==
    Cardinality({k \in DOMAIN alloc.relocations :
                    saturating_sub(start, 8 - 1) <= k /\ k < end})

\* variant: only the start of the range is probed
check_relocation_edges_start_only(alloc, start, end) ==
    IF check_bounds(alloc, start, end) # "Ok" THEN check_bounds(alloc, start, end)
    ELSE IF count_overlapping_relocations(alloc, start, start) = 0
         THEN "Ok"
         ELSE "ReadPointerAsBytes"

\* variant: the whole range is probed, as for plain data, not its two edges
check_relocation_edges_whole_range(alloc, start, end) ==
    IF check_bounds(alloc, start, end) # "Ok" THEN check_bounds(alloc, start, end)
    ELSE IF count_overlapping_relocations(alloc, start, end) = 0
         THEN "Ok"
         ELSE "ReadPointerAsBytes"

check_relocation_edges(alloc, start, end) ==
    IF check_bounds(alloc, start, end) # "Ok" THEN check_bounds(alloc, start, end)
    ELSE LET n == count_overlapping_relocations(alloc, start, start)
                  + count_overlapping_relocations(alloc, end, end)
         IN  IF n = 0 THEN "Ok" ELSE "ReadPointerAsBytes"

\* variant: the relocation check is left out
check_no_relocations_bounds_only(alloc, start, end) == check_bounds(alloc, start, end)

\* variant: the relocations are counted before the bounds are checked
check_no_relocations_relocs_first(alloc, start, end) ==
    IF count_overlapping_relocations(alloc, start, end) # 0 THEN "ReadPointerAsBytes"
    ELSE check_bounds(alloc, start, end)

check_no_relocations(alloc, start, end) ==
    IF check_bounds(alloc, start, end) # "Ok" THEN check_bounds(alloc, start, end)
    ELSE IF count_overlapping_relocations(alloc, start, end) = 0
         THEN "Ok"
         ELSE "ReadPointerAsBytes"

(***************************************************************************)
(* impl Memory: the accessors, as functions of the allocation table.       *)
(***************************************************************************)
slice(bytes, start, end) == SubSeq(bytes, start + 1, end)

\* variant: the data are written at the start of the buffer, whatever the offset
store_at_start(bytes, start, data) ==
    [i \in 1..Len(bytes) |-> IF i <= Len(data) THEN data[i] ELSE bytes[i]]

\* the bytes of an allocation after writing data through a slice starting at offset start
store(bytes, start, data) ==
    [i \in 1..Len(bytes) |->
        IF start < i /\ i <= start + Len(data) THEN data[i - start] ELSE bytes[i]]

\* variant: an unknown identifier yields an empty allocation
get_or_empty(map, id) ==
    IF id \in DOMAIN map THEN Ok(map[id]) ELSE Ok(Allocation(<< >>, EmptyRelocations))

get(map, id) ==
    IF id \in DOMAIN map THEN Ok(map[id]) ELSE Err("DanglingPointerDeref")

get_mut(map, id) ==
    IF id \in DOMAIN map THEN Ok(map[id]) ELSE Err("DanglingPointerDeref")

get_bytes(map, ptr, size) ==
    LET a == get(map, ptr.alloc_id) IN
    IF ~IsOk(a) THEN Err(a.err)
    ELSE LET c == check_no_relocations(a.val, ptr.offset, ptr.offset + size) IN
         IF c # "Ok" THEN Err(c)
         ELSE Ok(slice(a.val.bytes, ptr.offset, ptr.offset + size))

\* variant: the mutable slice is handed out after a bounds check alone
get_bytes_mut_unchecked(map, ptr, size) ==
    LET a == get_mut(map, ptr.alloc_id) IN
    IF ~IsOk(a) THEN Err(a.err)
    ELSE LET c == check_bounds(a.val, ptr.offset, ptr.offset + size) IN
         IF c # "Ok" THEN Err(c)
         ELSE Ok(slice(a.val.bytes, ptr.offset, ptr.offset + size))

get_bytes_mut(map, ptr, size) ==
    LET a == get_mut(map, ptr.alloc_id) IN
    IF ~IsOk(a) THEN Err(a.err)
    ELSE LET c == check_no_relocations(a.val, ptr.offset, ptr.offset + size) IN
         IF c # "Ok" THEN Err(c)
         ELSE Ok(slice(a.val.bytes, ptr.offset, ptr.offset + size))

\* a mutating call's outcome: the error kind and the allocation table afterwards
Outcome(e, map) == [err |-> e, map |-> map]

\* the table after the bytes behind a slice obtained from get_bytes_mut are overwritten
write_through(map, ptr, data) ==
    [map EXCEPT ![ptr.alloc_id].bytes = store(@, ptr.offset, data)]

write_bytes(map, ptr, src) ==
    LET b == get_bytes_mut(map, ptr, Len(src)) IN
    IF ~IsOk(b) THEN Outcome(b.err, map)
    ELSE Outcome("Ok", write_through(map, ptr, src))

write_bool(map, ptr, b) ==
    LET bytes == get_bytes_mut(map, ptr, 1) IN
    IF ~IsOk(bytes) THEN Outcome(bytes.err, map)
    ELSE Outcome("Ok", write_through(map, ptr, <<IF b THEN 1 ELSE 0>>))

read_bool(map, ptr) ==
    LET bytes == get_bytes(map, ptr, 1) IN
    IF ~IsOk(bytes) THEN Err(bytes.err)
    ELSE IF bytes.val[1] = 0 THEN Ok(FALSE)
         ELSE IF bytes.val[1] = 1 THEN Ok(TRUE)
         ELSE Err("InvalidBool")

read_int(map, ptr, size) ==
    LET b == get_bytes(map, ptr, size) IN
    IF ~IsOk(b) THEN Err(b.err) ELSE Ok(read_int_le(b.val))

\* variant: the value is narrowed to one byte before it is written
write_int_low_byte(map, ptr, n, size) ==
    LET b == get_bytes_mut(map, ptr, size) IN
    IF ~IsOk(b) THEN Outcome(b.err, map)
    ELSE Outcome("Ok", write_through(map, ptr, write_le(n % 256, size)))

write_int(map, ptr, n, size) ==
    LET b == get_bytes_mut(map, ptr, size) IN
    IF ~IsOk(b) THEN Outcome(b.err, map)
    ELSE Outcome("Ok", write_through(map, ptr, write_le(n, size)))

read_uint(map, ptr, size) ==
    LET b == get_bytes(map, ptr, size) IN
    IF ~IsOk(b) THEN Err(b.err) ELSE Ok(read_uint_le(b.val))

write_uint(map, ptr, n, size) ==
    LET b == get_bytes_mut(map, ptr, size) IN
    IF ~IsOk(b) THEN Outcome(b.err, map)
    ELSE Outcome("Ok", write_through(map, ptr, write_le(n, size)))

read_isize(map, ptr) == read_int(map, ptr, pointer_size)

write_isize(map, ptr, n) == write_int(map, ptr, n, pointer_size)

read_usize(map, ptr) == read_uint(map, ptr, pointer_size)

write_usize(map, ptr, n) == write_uint(map, ptr, n, pointer_size)

\* PrimVal: a typed value; the integer variants carry a value of their own width
PrimVal(kind, n) == [kind |-> kind, n |-> n]

IntWidth == [I8 |-> 1, I16 |-> 2, I32 |-> 4, I64 |-> 8]

UintWidth == [U8 |-> 1, U16 |-> 2, U32 |-> 4, U64 |-> 8]

\* Memory::write_primval: the writer of the value's variant, at the variant's width;
\* IntegerPtr is written as 8 bytes whatever pointer_size is.  The AbstractPtr arm
\* is unimplemented!() and does not return.
write_primval(map, ptr, val) ==
    IF val.kind = "Bool" THEN write_bool(map, ptr, val.n = 1)
    ELSE IF val.kind \in DOMAIN IntWidth THEN write_int(map, ptr, val.n, IntWidth[val.kind])
    ELSE IF val.kind \in DOMAIN UintWidth THEN write_uint(map, ptr, val.n, UintWidth[val.kind])
    ELSE write_uint(map, ptr, val.n, 8)

\* byteorder::NativeEndian::read_u64 / write_u64 on the first eight bytes of a slice
read_u64(bytes) == read_uint_le(SubSeq(bytes, 1, 8))

write_u64(n) == write_le(n, 8)

\* variant: a missing relocation is reported with the other error kind
read_ptr_wrong_error(map, ptr) ==
    LET a == get(map, ptr.alloc_id) IN
    IF ~IsOk(a) THEN Err(a.err)
    ELSE LET alloc == a.val
             c == check_relocation_edges(alloc, ptr.offset, ptr.offset + pointer_size)
         IN  IF c # "Ok" THEN Err(c)
             ELSE LET bytes == slice(alloc.bytes, ptr.offset, ptr.offset + pointer_size)
                      offset == read_u64(bytes)
                  IN  IF ptr.offset \in DOMAIN alloc.relocations
                      THEN Ok(Pointer(alloc.relocations[ptr.offset], offset))
                      ELSE Err("ReadPointerAsBytes")

read_ptr(map, ptr) ==
    LET a == get(map, ptr.alloc_id) IN
    IF ~IsOk(a) THEN Err(a.err)
    ELSE LET alloc == a.val
             c == check_relocation_edges(alloc, ptr.offset, ptr.offset + pointer_size)
         IN  IF c # "Ok" THEN Err(c)
             ELSE LET bytes == slice(alloc.bytes, ptr.offset, ptr.offset + pointer_size)
                      offset == read_u64(bytes)
                  IN  IF ptr.offset \in DOMAIN alloc.relocations
                      THEN Ok(Pointer(alloc.relocations[ptr.offset], offset))
                      ELSE Err("ReadBytesAsPointer")

\* BTreeMap::insert: the record at key k is created or replaced
insert(relocations, k, id) ==
    [o \in DOMAIN relocations \cup {k} |-> IF o = k THEN id ELSE relocations[o]]

\* variant: the relocation names the allocation written to
write_ptr_names_dest(map, dest, ptr_val) ==
    LET bytes == get_bytes_mut(map, dest, pointer_size) IN
    IF ~IsOk(bytes) THEN Outcome(bytes.err, map)
    ELSE LET written == write_through(map, dest, write_u64(ptr_val.offset))
         IN  Outcome("Ok", [written EXCEPT ![dest.alloc_id].relocations =
                                insert(@, dest.offset, dest.alloc_id)])

write_ptr(map, dest, ptr_val) ==
    LET bytes == get_bytes_mut(map, dest, pointer_size) IN
    IF ~IsOk(bytes) THEN Outcome(bytes.err, map)
    ELSE LET written == write_through(map, dest, write_u64(ptr_val.offset))
         IN  Outcome("Ok", [written EXCEPT ![dest.alloc_id].relocations =
                                insert(@, dest.offset, ptr_val.alloc_id)])

(***************************************************************************)
(* Memory::copy and its parts.                                             *)
(***************************************************************************)
\* relocations.range(Included(src.offset), Excluded(src.offset + size)).collect()
collect_relocations(alloc, start, size) ==
    [k \in {o \in DOMAIN alloc.relocations : start <= o /\ o < start + size}
        |-> alloc.relocations[k]]

\* variant: the destination offset is added but the source offset is not taken off
rehome_adds_only(relocations, src_offset, dest_offset) ==
    [k \in {o + dest_offset : o \in DOMAIN relocations} |-> relocations[k - dest_offset]]

\* variant: the collected relocations keep their source offsets
rehome_keeps_offsets(relocations, src_offset, dest_offset) == relocations

\* *offset += dest.offset; *offset -= src.offset, for every collected relocation
rehome(relocations, src_offset, dest_offset) ==
    [k \in {(o + dest_offset) - src_offset : o \in DOMAIN relocations}
        |-> relocations[(k + src_offset) - dest_offset]]

\* BTreeMap::extend: every new record is inserted, replacing a record with its key
extend(relocations, new) ==
    [k \in DOMAIN relocations \cup DOMAIN new |->
        IF k \in DOMAIN new THEN new[k] ELSE relocations[k]]

\* variant: a byte-by-byte ascending copy, which reads bytes it has already written
RECURSIVE copy_ascending(_, _, _, _, _)
copy_ascending(bytes, src_offset, dest_offset, i, size) ==
    IF i = size THEN bytes
    ELSE copy_ascending([bytes EXCEPT ![dest_offset + i + 1] = bytes[src_offset + i + 1]],
                        src_offset, dest_offset, i + 1, size)

ptr_copy_ascending(bytes, src_offset, dest_offset, size) ==
    copy_ascending(bytes, src_offset, dest_offset, 0, size)

\* ptr::copy within one buffer: the source range is read as it was before the call
ptr_copy(bytes, src_offset, dest_offset, size) ==
    store(bytes, dest_offset, slice(bytes, src_offset, src_offset + size))

\* ptr::copy_nonoverlapping between two distinct buffers
ptr_copy_nonoverlapping(src_bytes, dest_bytes, src_offset, dest_offset, size) ==
    store(dest_bytes, dest_offset, slice(src_bytes, src_offset, src_offset + size))

\* the last part of copy: the re-homed relocations are added to the destination's
\* table and the bytes are copied
copy_into(map, src, dest, size, relocations) ==
    LET extended == [map EXCEPT ![dest.alloc_id].relocations = extend(@, relocations)]
    IN  IF src.alloc_id = dest.alloc_id
        THEN [extended EXCEPT ![dest.alloc_id].bytes =
                ptr_copy(@, src.offset, dest.offset, size)]
        ELSE [extended EXCEPT ![dest.alloc_id].bytes =
                ptr_copy_nonoverlapping(map[src.alloc_id].bytes, @,
                                        src.offset, dest.offset, size)]

\* variant: the relocations are added to the destination before its range is checked
copy_extends_before_check(map, src, dest, size) ==
    LET a == get_mut(map, src.alloc_id) IN
    IF ~IsOk(a) THEN Outcome(a.err, map)
    ELSE LET e == check_relocation_edges(a.val, src.offset, src.offset + size) IN
    IF e # "Ok" THEN Outcome(e, map)
    ELSE LET relocations == rehome(collect_relocations(a.val, src.offset, size),
                                   src.offset, dest.offset)
             d == get_mut(map, dest.alloc_id)
         IN
    IF ~IsOk(d) THEN Outcome(d.err, map)
    ELSE LET extended == [map EXCEPT ![dest.alloc_id].relocations = extend(@, relocations)]
             dest_bytes == get_bytes_mut(extended, dest, size)
         IN
    IF ~IsOk(dest_bytes) THEN Outcome(dest_bytes.err, extended)
    ELSE Outcome("Ok", copy_into(map, src, dest, size, relocations))

\* variant: the destination is checked before the source
copy_checks_dest_first(map, src, dest, size) ==
    LET dest_bytes == get_bytes_mut(map, dest, size) IN
    IF ~IsOk(dest_bytes) THEN Outcome(dest_bytes.err, map)
    ELSE LET a == get_mut(map, src.alloc_id) IN
    IF ~IsOk(a) THEN Outcome(a.err, map)
    ELSE LET e == check_relocation_edges(a.val, src.offset, src.offset + size) IN
    IF e # "Ok" THEN Outcome(e, map)
    ELSE Outcome("Ok", copy_into(map, src, dest, size,
                                 rehome(collect_relocations(a.val, src.offset, size),
                                        src.offset, dest.offset)))

copy(map, src, dest, size) ==
    LET a == get_mut(map, src.alloc_id) IN
    IF ~IsOk(a) THEN Outcome(a.err, map)
    ELSE LET e == check_relocation_edges(a.val, src.offset, src.offset + size) IN
    IF e # "Ok" THEN Outcome(e, map)
    ELSE LET relocations == rehome(collect_relocations(a.val, src.offset, size),
                                   src.offset, dest.offset)
             dest_bytes == get_bytes_mut(map, dest, size)
         IN
    IF ~IsOk(dest_bytes) THEN Outcome(dest_bytes.err, map)
    ELSE Outcome("Ok", copy_into(map, src, dest, size, relocations))

\* variant: the table is rebuilt around the new allocation alone
allocate_forgets(map, id, size) ==
    [i \in {id} |-> Allocation([b \in 1..size |-> 0], EmptyRelocations)]

\* variant: the buffer is reserved but not filled (Vec::with_capacity)
allocate_with_capacity(map, id, size) ==
    [i \in DOMAIN map \cup {id} |->
        IF i = id THEN Allocation(<< >>, EmptyRelocations) ELSE map[i]]

\* Memory::allocate: the table after registering a zero-filled allocation under id
allocate(map, id, size) ==
    [i \in DOMAIN map \cup {id} |->
        IF i = id THEN Allocation([b \in 1..size |-> 0], EmptyRelocations) ELSE map[i]]

(***************************************************************************)
(* The state machine.  The interpreter calls one operation of Memory at a  *)
(* time (pc = "idle" -> "done") and then takes the result (Return).  call  *)
(* and result hold the operation just performed and what it returned,      *)
(* old_map and old_next the table and the counter as they were before it.  *)
(* nops counts the calls that changed an allocation.                       *)
(***************************************************************************)
NoPtr == Pointer(0, 0)

Call(op, ptr, ptr2, size, n, data) ==
    [op |-> op, ptr |-> ptr, ptr2 |-> ptr2, size |-> size, n |-> n, data |-> data]

NoCall == Call("none", NoPtr, NoPtr, 0, 0, << >>)

Init ==
    /\ alloc_map = [i \in {} |-> Allocation(<< >>, EmptyRelocations)]
    /\ next_id = 0
    /\ pointer_size = size_of_usize
    /\ pc = "idle"
    /\ call = NoCall
    /\ result = Ok(0)
    /\ old_map = alloc_map
    /\ old_next = 0
    /\ nops = 0

\* a call returns r and leaves the table map and the counter nid
Returns(c, r, map, nid) ==
    /\ pc = "idle"
    /\ pc' = "done"
    /\ call' = c
    /\ result' = r
    /\ alloc_map' = map
    /\ next_id' = nid
    /\ old_map' = alloc_map
    /\ old_next' = next_id
    /\ UNCHANGED pointer_size

Reads(c, r) == Returns(c, r, alloc_map, next_id) /\ UNCHANGED nops

Mutates(c, o) ==
    /\ o.map # alloc_map => nops < MaxOps
    /\ Returns(c, [err |-> o.err, val |-> 0], o.map, next_id)
    /\ nops' = IF o.map # alloc_map THEN nops + 1 ELSE nops

\* A call that panics does not return.  byteorder's read_u64 and write_u64 panic on
\* a slice shorter than 8 bytes, its read_int, read_uint, write_int and write_uint
\* on a width above 8, and its write_uint on a value that does not fit the width
\* (write_int cuts the value down to the width instead).  These panics come after
\* the slice has been granted; the actions below leave exactly these calls out.
Allocate ==
    /\ pc = "idle"
    /\ \E size \in AllocSizes :
        /\ next_id < MaxAllocs
        /\ Returns(Call("allocate", NoPtr, NoPtr, size, 0, << >>),
                   Ok(Pointer(next_id, 0)),
                   allocate(alloc_map, next_id, size),
                   next_id + 1)
        /\ UNCHANGED nops

Copy ==
    /\ pc = "idle"
    /\ \E src \in Pointers, dest \in Pointers, size \in CopySizes :
        Mutates(Call("copy", src, dest, size, 0, << >>), copy(alloc_map, src, dest, size))

WriteBytes ==
    /\ pc = "idle"
    /\ \E ptr \in Pointers, src \in ByteStrings :
        Mutates(Call("write_bytes", ptr, NoPtr, 0, 0, src), write_bytes(alloc_map, ptr, src))

ReadPtr ==
    /\ pc = "idle"
    /\ \E ptr \in Pointers :
        LET r == read_ptr(alloc_map, ptr) IN
        /\ r.err \in {"Ok", "ReadBytesAsPointer"} => pointer_size >= 8
        /\ IsOk(r) => InModelRange(slice(alloc_map[ptr.alloc_id].bytes, ptr.offset,
                                         ptr.offset + 8), FALSE)
        /\ Reads(Call("read_ptr", ptr, NoPtr, 0, 0, << >>), r)

WritePtr ==
    /\ pc = "idle"
    /\ \E dest \in Pointers, ptr_val \in PtrVals :
        /\ IsOk(get_bytes_mut(alloc_map, dest, pointer_size)) => pointer_size >= 8
        /\ Mutates(Call("write_ptr", dest, ptr_val, 0, 0, << >>),
                   write_ptr(alloc_map, dest, ptr_val))

ReadBool ==
    /\ pc = "idle"
    /\ \E ptr \in Pointers :
        Reads(Call("read_bool", ptr, NoPtr, 0, 0, << >>), read_bool(alloc_map, ptr))

WriteBool ==
    /\ pc = "idle"
    /\ \E ptr \in Pointers, b \in BOOLEAN :
        Mutates(Call("write_bool", ptr, NoPtr, 0, IF b THEN 1 ELSE 0, << >>),
                write_bool(alloc_map, ptr, b))

ReadInt ==
    /\ pc = "idle"
    /\ \E ptr \in Pointers, size \in Widths :
        LET b == get_bytes(alloc_map, ptr, size) IN
        /\ IsOk(b) => InModelRange(b.val, TRUE)
        /\ Reads(Call("read_int", ptr, NoPtr, size, 0, << >>), read_int(alloc_map, ptr, size))

WriteInt ==
    /\ pc = "idle"
    /\ \E ptr \in Pointers, n \in IntVals, size \in Widths :
        Mutates(Call("write_int", ptr, NoPtr, size, n, << >>),
                write_int(alloc_map, ptr, n, size))

ReadUint ==
    /\ pc = "idle"
    /\ \E ptr \in Pointers, size \in Widths :
        LET b == get_bytes(alloc_map, ptr, size) IN
        /\ IsOk(b) => InModelRange(b.val, FALSE)
        /\ Reads(Call("read_uint", ptr, NoPtr, size, 0, << >>), read_uint(alloc_map, ptr, size))

WriteUint ==
    /\ pc = "idle"
    /\ \E ptr \in Pointers, n \in UintVals, size \in Widths :
        /\ IsOk(get_bytes_mut(alloc_map, ptr, size)) => FitsUint(n, size)
        /\ Mutates(Call("write_uint", ptr, NoPtr, size, n, << >>),
                   write_uint(alloc_map, ptr, n, size))

ReadIsize ==
    /\ pc = "idle"
    /\ \E ptr \in Pointers :
        LET b == get_bytes(alloc_map, ptr, pointer_size) IN
        /\ IsOk(b) => pointer_size <= 8
        /\ IsOk(b) => InModelRange(b.val, TRUE)
        /\ Reads(Call("read_isize", ptr, NoPtr, 0, 0, << >>), read_isize(alloc_map, ptr))

WriteIsize ==
    /\ pc = "idle"
    /\ \E ptr \in Pointers, n \in IntVals :
        /\ IsOk(get_bytes_mut(alloc_map, ptr, pointer_size)) => pointer_size <= 8
        /\ Mutates(Call("write_isize", ptr, NoPtr, 0, n, << >>),
                   write_isize(alloc_map, ptr, n))

ReadUsize ==
    /\ pc = "idle"
    /\ \E ptr \in Pointers :
        LET b == get_bytes(alloc_map, ptr, pointer_size) IN
        /\ IsOk(b) => pointer_size <= 8
        /\ IsOk(b) => InModelRange(b.val, FALSE)
        /\ Reads(Call("read_usize", ptr, NoPtr, 0, 0, << >>), read_usize(alloc_map, ptr))

WriteUsize ==
    /\ pc = "idle"
    /\ \E ptr \in Pointers, n \in UintVals :
        /\ IsOk(get_bytes_mut(alloc_map, ptr, pointer_size)) =>
              pointer_size <= 8 /\ FitsUint(n, pointer_size)
        /\ Mutates(Call("write_usize", ptr, NoPtr, 0, n, << >>),
                   write_usize(alloc_map, ptr, n))

\* the typed values tried: each variant with the values of its type
PrimVals ==
    {PrimVal("Bool", n) : n \in {0, 1}}
        \cup {val \in {PrimVal(k, n) : k \in DOMAIN IntWidth, n \in IntVals} :
                 FitsInt(val.n, IntWidth[val.kind])}
        \cup {val \in {PrimVal(k, n) : k \in DOMAIN UintWidth, n \in UintVals} :
                 FitsUint(val.n, UintWidth[val.kind])}
        \cup {PrimVal("IntegerPtr", n) : n \in UintVals}
        \cup {PrimVal("AbstractPtr", 0)}

WritePrimval ==
    /\ pc = "idle"
    /\ \E ptr \in Pointers, val \in PrimVals :
        /\ val.kind # "AbstractPtr"
        /\ Mutates(Call("write_primval", ptr, NoPtr, 0, val, << >>),
                   write_primval(alloc_map, ptr, val))

\* the interpreter takes the result; the memory is as the call left it
Return ==
    /\ pc = "done"
    /\ pc' = "idle"
    /\ call' = NoCall
    /\ result' = Ok(0)
    /\ old_map' = alloc_map
    /\ old_next' = next_id
    /\ UNCHANGED <<alloc_map, next_id, pointer_size, nops>>

Next ==
    \/ Allocate
    \/ Copy
    \/ WriteBytes
    \/ ReadPtr
    \/ WritePtr
    \/ ReadBool
    \/ WriteBool
    \/ ReadInt
    \/ WriteInt
    \/ ReadUint
    \/ WriteUint
    \/ ReadIsize
    \/ WriteIsize
    \/ ReadUsize
    \/ WriteUsize
    \/ WritePrimval
    \/ Return

Spec == Init /\ [][Next]_vars

(***************************************************************************)
(* Other pointer widths.  pointer_size is a public field that Memory::new   *)
(* sets to the host's size_of::<usize>(); under SpecWidth the owner of the  *)
(* Memory assigns it between calls, in any state.                          *)
(***************************************************************************)
PointerSizes == {4, 8, 16}

SetPointerSize ==
    /\ pc = "idle"
    /\ \E w \in PointerSizes : pointer_size' = w
    /\ UNCHANGED <<alloc_map, next_id, pc, call, result, old_map, old_next, nops>>

NextWidth ==
    \/ SetPointerSize
    \/ Allocate
    \/ Copy
    \/ ReadPtr
    \/ WritePtr
    \/ ReadInt
    \/ WriteInt
    \/ ReadIsize
    \/ WriteIsize
    \/ ReadUsize
    \/ WriteUsize
    \/ Return

SpecWidth == Init /\ [][NextWidth]_vars

(***************************************************************************)
(* The integer accessors at the ends of their ranges.  SpecInt calls       *)
(* write_int and write_uint with the least and greatest values of each     *)
(* width (as far as the checker's integers go), next to allocate,          *)
(* write_ptr and the readers.                                              *)
(***************************************************************************)
EdgeInts == {-2147483647 - 1, -32768, -128, -1, 127, 32767, 2147483647}

EdgeUints == {255, 65535, 2147483647}

WriteIntEdge ==
    /\ pc = "idle"
    /\ \E ptr \in Pointers, n \in EdgeInts, size \in Widths :
        Mutates(Call("write_int", ptr, NoPtr, size, n, << >>),
                write_int(alloc_map, ptr, n, size))

WriteUintEdge ==
    /\ pc = "idle"
    /\ \E ptr \in Pointers, n \in EdgeUints, size \in Widths :
        /\ IsOk(get_bytes_mut(alloc_map, ptr, size)) => FitsUint(n, size)
        /\ Mutates(Call("write_uint", ptr, NoPtr, size, n, << >>),
                   write_uint(alloc_map, ptr, n, size))

NextInt ==
    \/ Allocate
    \/ WritePtr
    \/ WriteIntEdge
    \/ WriteUintEdge
    \/ ReadInt
    \/ ReadUint
    \/ Return

SpecInt == Init /\ [][NextInt]_vars

(***************************************************************************)
(* Properties.                                                             *)
(***************************************************************************)
Done(op) == pc = "done" /\ call.op = op

Issued(id) == id \in DOMAIN old_map

\* byte sequences tried against a pointer slot
DataSamples == ByteStrings \cup {<<7>>, <<0, 255>>}

NonEmptySamples == {data \in DataSamples : Len(data) > 0}

\* after a successful write_ptr(p, v): what the plain-data accessors say about p
GuardedAgainst(samples) ==
    LET p == call.ptr
        L == Len(alloc_map[p.alloc_id].bytes)
    IN  /\ \A data \in samples :
              p.offset + Len(data) <= L
                  => write_bytes(alloc_map, p, data).err = "ReadPointerAsBytes"
        /\ \A w \in Widths :
              p.offset + w <= L => read_int(alloc_map, p, w).err = "ReadPointerAsBytes"
        /\ get_bytes(alloc_map, p, pointer_size).err = "ReadPointerAsBytes"

\* C1, as stated: after write_ptr(p, v) has succeeded, write_bytes(p, data) for every
\* in-bounds byte sequence (the empty one included), read_int(p, w) for every in-bounds
\* width and get_bytes(p, pointer_size) all fail with ReadPointerAsBytes.
C1_Original ==
    (Done("write_ptr") /\ IsOk(result)) => GuardedAgainst(DataSamples)

\* C1, amended: after write_ptr(p, v) has succeeded, write_bytes(p, data) for every
\* NON-EMPTY in-bounds byte sequence, read_int(p, w) for every in-bounds width w in
\* {1,2,4,8} and get_bytes(p, pointer_size) all fail with ReadPointerAsBytes.
C1_TypeConfusionGuard ==
    (Done("write_ptr") /\ IsOk(result)) => GuardedAgainst(NonEmptySamples)

C1_Witness ==
    /\ Done("write_ptr")
    /\ IsOk(result)
    /\ call.ptr.offset + 8 <= Len(alloc_map[call.ptr.alloc_id].bytes)
    /\ call.ptr.offset \in DOMAIN alloc_map[call.ptr.alloc_id].relocations

\* a freshly allocated allocation: all bytes zero, no relocations
Fresh(alloc) ==
    /\ \A i \in 1..Len(alloc.bytes) : alloc.bytes[i] = 0
    /\ DOMAIN alloc.relocations = {}

FreshDest ==
    /\ Done("write_ptr")
    /\ Issued(call.ptr.alloc_id)
    /\ call.ptr.offset = 0
    /\ Fresh(old_map[call.ptr.alloc_id])
    /\ Len(old_map[call.ptr.alloc_id].bytes) >= pointer_size

\* C2: for every pointer value v and every p at offset 0 of a freshly allocated
\* allocation of at least pointer_size bytes, write_ptr(p, v) succeeds and
\* read_ptr(p) then returns Ok(v): the same alloc_id and the same offset.
C2_PtrRoundTrip ==
    FreshDest =>
        /\ IsOk(result)
        /\ IsOk(read_ptr(alloc_map, call.ptr))
        /\ read_ptr(alloc_map, call.ptr).val = call.ptr2

C2_Witness ==
    /\ FreshDest
    /\ call.ptr2 = Pointer(MaxAllocs, 65539)
    /\ IsOk(result)
    /\ alloc_map[call.ptr.alloc_id].bytes[3] = 1

CopyAcross ==
    /\ Done("copy")
    /\ IsOk(result)
    /\ call.ptr.alloc_id # call.ptr2.alloc_id

\* C3: after a successful copy(src, dest, n) from allocation A to a different
\* allocation B, B's bytes at [dest.offset, dest.offset+n) equal A's bytes at
\* [src.offset, src.offset+n); B has a relocation at dest.offset+i exactly when A has
\* one at src.offset+i, naming the same AllocId; and read_ptr at such a destination
\* offset succeeds and returns the pointer read_ptr returns at the source offset.
C3_CopyAcross ==
    CopyAcross =>
        LET s == call.ptr.offset
            d == call.ptr2.offset
            n == call.size
            A == alloc_map[call.ptr.alloc_id]
            B == alloc_map[call.ptr2.alloc_id]
        IN  /\ slice(B.bytes, d, d + n) = slice(A.bytes, s, s + n)
            /\ \A i \in 0..(n - 1) :
                  /\ (d + i \in DOMAIN B.relocations) <=> (s + i \in DOMAIN A.relocations)
                  /\ s + i \in DOMAIN A.relocations =>
                        /\ B.relocations[d + i] = A.relocations[s + i]
                        /\ IsOk(read_ptr(alloc_map, Pointer(call.ptr2.alloc_id, d + i)))
                        /\ IsOk(read_ptr(alloc_map, Pointer(call.ptr.alloc_id, s + i)))
                        /\ read_ptr(alloc_map, Pointer(call.ptr2.alloc_id, d + i)).val
                             = read_ptr(alloc_map, Pointer(call.ptr.alloc_id, s + i)).val

C3_Witness ==
    /\ CopyAcross
    /\ call.ptr.offset # call.ptr2.offset
    /\ \E k \in DOMAIN alloc_map[call.ptr.alloc_id].relocations :
          /\ call.ptr.offset <= k
          /\ k < call.ptr.offset + call.size
          /\ alloc_map[call.ptr.alloc_id].bytes[k + 1] # 0

CopyOverlap ==
    /\ Done("copy")
    /\ IsOk(result)
    /\ call.ptr.alloc_id = call.ptr2.alloc_id
    /\ call.size > 0
    /\ call.ptr.offset < call.ptr2.offset + call.size
    /\ call.ptr2.offset < call.ptr.offset + call.size

\* C4: after a successful copy(src, dest, n) within one allocation whose source and
\* destination ranges overlap, the destination range holds the bytes the source range
\* held before the call, and the bytes outside the destination range are unchanged.
C4_CopyOverlap ==
    CopyOverlap =>
        LET s == call.ptr.offset
            d == call.ptr2.offset
            n == call.size
            old == old_map[call.ptr.alloc_id].bytes
            new == alloc_map[call.ptr.alloc_id].bytes
        IN  /\ Len(new) = Len(old)
            /\ slice(new, d, d + n) = slice(old, s, s + n)
            /\ \A i \in 1..Len(old) : ~(d < i /\ i <= d + n) => new[i] = old[i]

\* a forward overlap (src below dest) whose source bytes differ from one another
C4_Witness ==
    /\ CopyOverlap
    /\ call.ptr.offset < call.ptr2.offset
    /\ old_map[call.ptr.alloc_id].bytes[call.ptr.offset + 1]
         # old_map[call.ptr.alloc_id].bytes[call.ptr.offset + 2]
    /\ alloc_map # old_map

\* the backward overlap (dest below src) happens as well
C4_WitnessBackward ==
    /\ CopyOverlap
    /\ call.ptr2.offset < call.ptr.offset
    /\ alloc_map # old_map

MutatingOps ==
    {"write_bytes", "write_bool", "write_int", "write_uint", "write_isize",
     "write_usize", "write_primval", "write_ptr", "copy"}

\* C5: whenever a mutating operation returns an error, the whole Memory state (every
\* allocation's bytes and relocations, the allocation table and the next-identifier
\* counter) is as it was before the call.
C5_FailureAtomic ==
    (pc = "done" /\ call.op \in MutatingOps /\ ~IsOk(result)) =>
        /\ alloc_map = old_map
        /\ next_id = old_next

\* a copy that fails on its destination although its source range holds a relocation
C5_Witness ==
    /\ Done("copy")
    /\ ~IsOk(result)
    /\ Issued(call.ptr.alloc_id)
    /\ Issued(call.ptr2.alloc_id)
    /\ check_relocation_edges(old_map[call.ptr.alloc_id], call.ptr.offset,
                              call.ptr.offset + call.size) = "Ok"
    /\ DOMAIN collect_relocations(old_map[call.ptr.alloc_id], call.ptr.offset, call.size) # {}

\* C6, as stated: for every live destination allocation and every dest whose
\* pointer-sized range is in bounds, write_ptr(dest, value) succeeds, encodes
\* value.offset into the bytes and leaves a relocation at dest.offset naming value's
\* allocation, whether or not the slot had a relocation record before.
C6_WritePtrUnconditional ==
    (/\ Done("write_ptr")
     /\ Issued(call.ptr.alloc_id)
     /\ call.ptr.offset + pointer_size <= Len(old_map[call.ptr.alloc_id].bytes)) =>
        LET alloc == alloc_map[call.ptr.alloc_id] IN
        /\ IsOk(result)
        /\ call.ptr.offset \in DOMAIN alloc.relocations
        /\ alloc.relocations[call.ptr.offset] = call.ptr2.alloc_id
        /\ slice(alloc.bytes, call.ptr.offset, call.ptr.offset + pointer_size)
             = write_u64(call.ptr2.offset)

\* C7, as stated: copy fails with DanglingPointerDeref whenever either allocation is
\* not in the table, whatever else is wrong with the other pointer's range.
C7_Original ==
    (Done("copy") /\ (~Issued(call.ptr.alloc_id) \/ ~Issued(call.ptr2.alloc_id))) =>
        result.err = "DanglingPointerDeref"

\* C7, amended: copy fails whenever either allocation is not in the table; with
\* DanglingPointerDeref when src's is missing, and when only dest's is missing with
\* DanglingPointerDeref if the source range passes its bounds and relocation-edge
\* checks and otherwise with the source range's own error.
C7_CopyDangling ==
    (Done("copy") /\ (~Issued(call.ptr.alloc_id) \/ ~Issued(call.ptr2.alloc_id))) =>
        /\ ~IsOk(result)
        /\ ~Issued(call.ptr.alloc_id) => result.err = "DanglingPointerDeref"
        /\ Issued(call.ptr.alloc_id) =>
              LET e == check_relocation_edges(old_map[call.ptr.alloc_id], call.ptr.offset,
                                              call.ptr.offset + call.size)
              IN  /\ e = "Ok" => result.err = "DanglingPointerDeref"
                  /\ e # "Ok" => result.err = e

C7_Witness ==
    /\ Done("copy")
    /\ Issued(call.ptr.alloc_id)
    /\ ~Issued(call.ptr2.alloc_id)
    /\ result.err = "ReadPointerAsBytes"

SinglePointerOps ==
    {"read_bool", "read_int", "read_uint", "read_isize", "read_usize", "read_ptr",
     "write_bool", "write_int", "write_uint", "write_isize", "write_usize",
     "write_primval", "write_bytes", "write_ptr"}

\* C8: every single-pointer operation applied to a pointer whose AllocId was never
\* issued by allocate fails with DanglingPointerDeref, for every offset and size, and
\* changes nothing.
C8_Dangling ==
    (pc = "done" /\ call.op \in SinglePointerOps /\ call.ptr.alloc_id >= old_next) =>
        /\ result.err = "DanglingPointerDeref"
        /\ alloc_map = old_map
        /\ next_id = old_next

C8_Witness ==
    /\ Done("read_usize")
    /\ call.ptr.alloc_id >= old_next
    /\ old_next > 0
    /\ call.ptr.offset = 8
    /\ result.err = "DanglingPointerDeref"

PlainDataOps ==
    {"read_bool", "read_int", "read_uint", "read_isize", "read_usize",
     "write_bool", "write_int", "write_uint", "write_isize", "write_usize",
     "write_primval", "write_bytes"}

\* the number of bytes write_primval writes for a value
PrimSize(val) ==
    IF val.kind = "Bool" THEN 1
    ELSE IF val.kind \in DOMAIN IntWidth THEN IntWidth[val.kind]
    ELSE IF val.kind \in DOMAIN UintWidth THEN UintWidth[val.kind]
    ELSE 8

\* the number of bytes a plain-data call accesses
AccessSize ==
    IF call.op \in {"read_bool", "write_bool"} THEN 1
    ELSE IF call.op = "write_primval" THEN PrimSize(call.n)
    ELSE IF call.op \in {"read_int", "write_int", "read_uint", "write_uint"} THEN call.size
    ELSE IF call.op = "write_bytes" THEN Len(call.data)
    ELSE pointer_size

\* C9: for every live allocation of length L, a plain-data read or write with
\* offset + size > L fails with PointerOutOfBounds, also when the in-bounds part of
\* the range overlaps a relocation; an access with offset + size = L is not rejected
\* for bounds.
C9_OutOfBounds ==
    (pc = "done" /\ call.op \in PlainDataOps /\ Issued(call.ptr.alloc_id)) =>
        LET L == Len(old_map[call.ptr.alloc_id].bytes) IN
        /\ call.ptr.offset + AccessSize > L => result.err = "PointerOutOfBounds"
        /\ call.ptr.offset + AccessSize = L => result.err # "PointerOutOfBounds"

\* an out-of-bounds read_int whose in-bounds part lies inside a recorded pointer
C9_Witness ==
    /\ Done("read_int")
    /\ Issued(call.ptr.alloc_id)
    /\ call.ptr.offset + call.size > Len(old_map[call.ptr.alloc_id].bytes)
    /\ \E k \in DOMAIN old_map[call.ptr.alloc_id].relocations :
          k <= call.ptr.offset /\ call.ptr.offset < k + pointer_size
    /\ result.err = "PointerOutOfBounds"

\* C10: if write_int(p, n, pointer_size) succeeds, an immediately following
\* read_ptr(p) fails with ReadBytesAsPointer, for every value n.
C10_InverseGuard ==
    (Done("write_int") /\ call.size = pointer_size /\ IsOk(result)) =>
        read_ptr(alloc_map, call.ptr).err = "ReadBytesAsPointer"

C10_Witness ==
    /\ Done("write_int")
    /\ call.size = pointer_size
    /\ IsOk(result)
    /\ call.n = 258
    /\ DOMAIN alloc_map[call.ptr.alloc_id].relocations # {}

\* C11: allocate(size) never fails: for every size, zero included, it returns
\* Ok(Pointer{alloc_id: id, offset: 0}) where id was not in the table before, and
\* the table now holds under id an allocation of exactly size bytes, all zero,
\* with an empty relocation table.
C11_Allocate ==
    Done("allocate") =>
        /\ IsOk(result)
        /\ result.val.offset = 0
        /\ result.val.alloc_id \notin DOMAIN old_map
        /\ result.val.alloc_id \in DOMAIN alloc_map
        /\ LET alloc == alloc_map[result.val.alloc_id] IN
               /\ Len(alloc.bytes) = call.size
               /\ \A i \in 1..call.size : alloc.bytes[i] = 0
               /\ DOMAIN alloc.relocations = {}

\* a second allocation, of non-zero size, made while the first one holds a pointer
C11_Witness ==
    /\ Done("allocate")
    /\ call.size > 0
    /\ \E id \in DOMAIN old_map : DOMAIN old_map[id].relocations # {}
    /\ Len(alloc_map[result.val.alloc_id].bytes) = call.size

\* C12: the identifiers in the table are always exactly 0 .. next_id - 1, the ones
\* issued so far.  Across any call next_id never decreases and no identifier leaves
\* the table; a call other than allocate leaves next_id and the set of identifiers
\* as they were; allocate returns an identifier that was not in the table (so it
\* differs from every identifier returned earlier), adds exactly that one, and
\* leaves the allocations already there in place.
C12_Freshness ==
    /\ DOMAIN alloc_map = 0..(next_id - 1)
    /\ pc = "done" =>
        /\ next_id >= old_next
        /\ DOMAIN old_map \subseteq DOMAIN alloc_map
        /\ call.op # "allocate" =>
            /\ next_id = old_next
            /\ DOMAIN alloc_map = DOMAIN old_map
        /\ call.op = "allocate" =>
            /\ result.val.alloc_id \notin DOMAIN old_map
            /\ next_id > old_next
            /\ DOMAIN alloc_map = DOMAIN old_map \cup {result.val.alloc_id}
            /\ \A id \in DOMAIN old_map : alloc_map[id] = old_map[id]

\* the second allocation: an identifier has been issued before, and the first
\* allocation has been written to since
C12_Witness ==
    /\ Done("allocate")
    /\ old_next > 0
    /\ result.val.alloc_id = old_next
    /\ \E id \in DOMAIN old_map : DOMAIN old_map[id].relocations # {}
    /\ call.size = 0

\* C13: in every reachable state, every key of every allocation's relocation table
\* is an offset inside that allocation's buffer: 0 <= k < length of bytes.
C13_KeysInBounds ==
    \A id \in DOMAIN alloc_map :
        \A k \in DOMAIN alloc_map[id].relocations :
            0 <= k /\ k < Len(alloc_map[id].bytes)

\* a copy has moved a relocation to a different, non-zero offset of its destination
C13_Witness ==
    /\ Done("copy")
    /\ IsOk(result)
    /\ call.ptr.offset # call.ptr2.offset
    /\ \E k \in DOMAIN alloc_map[call.ptr2.alloc_id].relocations :
          /\ k > 0
          /\ k \notin DOMAIN old_map[call.ptr2.alloc_id].relocations

\* the bytes of the target allocation outside [call.ptr.offset, call.ptr.offset + w)
\* are as they were before the call
OutsideUnchanged(w) ==
    LET id == call.ptr.alloc_id IN
    /\ Len(alloc_map[id].bytes) = Len(old_map[id].bytes)
    /\ \A i \in 1..Len(old_map[id].bytes) :
          (i <= call.ptr.offset \/ i > call.ptr.offset + w)
              => alloc_map[id].bytes[i] = old_map[id].bytes[i]

\* the w bytes at call.ptr were, before the call, in bounds of a live allocation and
\* not covered by any recorded pointer
WritableBefore(w) ==
    /\ Issued(call.ptr.alloc_id)
    /\ call.ptr.offset + w <= Len(old_map[call.ptr.alloc_id].bytes)
    /\ \A k \in DOMAIN old_map[call.ptr.alloc_id].relocations :
          k + pointer_size <= call.ptr.offset \/ call.ptr.offset + w <= k

\* C14: for every width w in {1,2,4,8}, every signed n representable in w bytes and
\* every pointer p to w in-bounds bytes free of relocations, write_int(p, n, w)
\* succeeds and read_int(p, w) then returns Ok(n); likewise write_uint(p, u, w) and
\* read_uint(p, w) for every unsigned u representable in w bytes; the bytes outside
\* [p.offset, p.offset + w) are unchanged by the write.
C14_IntRoundTrip ==
    /\ (Done("write_int") /\ FitsInt(call.n, call.size) /\ WritableBefore(call.size)) =>
          /\ IsOk(result)
          /\ read_int(alloc_map, call.ptr, call.size) = Ok(call.n)
          /\ OutsideUnchanged(call.size)
    /\ (Done("write_uint") /\ FitsUint(call.n, call.size) /\ WritableBefore(call.size)) =>
          /\ IsOk(result)
          /\ read_uint(alloc_map, call.ptr, call.size) = Ok(call.n)
          /\ OutsideUnchanged(call.size)

\* the least 16-bit integer is written, in two bytes, between non-zero bytes of an
\* allocation that holds a pointer
C14_Witness ==
    /\ Done("write_int")
    /\ IsOk(result)
    /\ call.n = -32768
    /\ call.size = 2
    /\ DOMAIN old_map[call.ptr.alloc_id].relocations # {}
    /\ \E i \in 1..call.ptr.offset : old_map[call.ptr.alloc_id].bytes[i] # 0

\* C15: a relocation record lasts.  Whatever call has just returned (allocate,
\* write_*, write_ptr, copy, with any arguments, successful or not), every record
\* that was in an allocation before the call is still there under the same offset
\* with the same AllocId, the pointer-sized bytes at that offset are unchanged, and
\* read_ptr at that offset returns the same pointer as before; so no call removes or
\* retargets a relocation.
C15_Permanence ==
    pc = "done" =>
        \A id \in DOMAIN old_map :
            \A o \in DOMAIN old_map[id].relocations :
                /\ id \in DOMAIN alloc_map
                /\ o \in DOMAIN alloc_map[id].relocations
                /\ alloc_map[id].relocations[o] = old_map[id].relocations[o]
                /\ slice(alloc_map[id].bytes, o, o + pointer_size)
                      = slice(old_map[id].bytes, o, o + pointer_size)
                /\ IsOk(read_ptr(old_map, Pointer(id, o)))
                /\ read_ptr(alloc_map, Pointer(id, o)) = read_ptr(old_map, Pointer(id, o))
                /\ read_ptr(alloc_map, Pointer(id, o)).val.alloc_id = old_map[id].relocations[o]

\* a second pointer, to another allocation, has been written into an allocation
\* that already held one
C15_Witness ==
    /\ Done("write_ptr")
    /\ IsOk(result)
    /\ \E o \in DOMAIN old_map[call.ptr.alloc_id].relocations :
          /\ o # call.ptr.offset
          /\ old_map[call.ptr.alloc_id].relocations[o] # call.ptr2.alloc_id

\* C16: in every reachable state (pointer width 8), for every allocation, every
\* relocation key k has k + 8 <= length of bytes, and two distinct keys of one
\* allocation differ by at least 8: the spans of the recorded pointers are pairwise
\* disjoint and inside the buffer.
C16_Disjoint ==
    \A id \in DOMAIN alloc_map :
        LET keys == DOMAIN alloc_map[id].relocations IN
        /\ \A k \in keys : k + 8 <= Len(alloc_map[id].bytes)
        /\ \A j \in keys : \A k \in keys : j < k => k - j >= 8

\* a copy within one allocation has given it a second pointer, next to the first
C16_Witness ==
    /\ Done("copy")
    /\ IsOk(result)
    /\ call.ptr.alloc_id = call.ptr2.alloc_id
    /\ Cardinality(DOMAIN old_map[call.ptr.alloc_id].relocations) = 1
    /\ Cardinality(DOMAIN alloc_map[call.ptr.alloc_id].relocations) = 2

\* a relocation of alloc is cut by the point at: the point lies strictly inside the
\* 8 bytes of a recorded pointer
CutAt(alloc, at) == \E k \in DOMAIN alloc.relocations : k < at /\ at < k + 8

\* before the returned copy both allocations were live, the source range was in
\* bounds, and the destination range was in bounds and free of relocations in the
\* sense of the plain-data accessors: no recorded pointer starts less than 8 bytes
\* before it or inside it
CopyEdgeCase ==
    /\ Done("copy")
    /\ Issued(call.ptr.alloc_id)
    /\ Issued(call.ptr2.alloc_id)
    /\ call.ptr.offset + call.size <= Len(old_map[call.ptr.alloc_id].bytes)
    /\ call.ptr2.offset + call.size <= Len(old_map[call.ptr2.alloc_id].bytes)
    /\ \A k \in DOMAIN old_map[call.ptr2.alloc_id].relocations :
          k + 8 <= call.ptr2.offset \/ call.ptr2.offset + call.size <= k

\* C17: for live allocations, an in-bounds source range [start, end) and a
\* destination range in bounds and free of relocations, copy succeeds exactly when
\* no source relocation key k has k < start < k + 8 or k < end < k + 8; a relocation
\* at start, one ending at end or one inside the range does not make it fail, and a
\* cut relocation makes it fail with ReadPointerAsBytes.
C17_CopyEdges ==
    CopyEdgeCase =>
        LET src == old_map[call.ptr.alloc_id]
            cut == CutAt(src, call.ptr.offset) \/ CutAt(src, call.ptr.offset + call.size)
        IN  /\ IsOk(result) <=> ~cut
            /\ cut => result.err = "ReadPointerAsBytes"

\* a successful copy whose source range holds a pointer strictly inside it
C17_Witness ==
    /\ CopyEdgeCase
    /\ IsOk(result)
    /\ \E k \in DOMAIN old_map[call.ptr.alloc_id].relocations :
          call.ptr.offset < k /\ k + 8 < call.ptr.offset + call.size

\* the relocation keys of alloc that the claim counts for [start, end) under width w
KeysWithin(alloc, start, end, w) ==
    {k \in DOMAIN alloc.relocations :
        (IF start - (w - 1) > 0 THEN start - (w - 1) ELSE 0) <= k /\ k < end}

\* C18, as stated: for every configured pointer_size, count_overlapping_relocations
\* (start, end) counts exactly the relocation keys k with
\* max(0, start - (pointer_size - 1)) <= k < end.
C18_CountFollowsWidth ==
    \A id \in DOMAIN alloc_map :
        \A start \in Offsets : \A end \in Offsets :
            (start <= end /\ end <= Len(alloc_map[id].bytes)) =>
                count_overlapping_relocations(alloc_map[id], start, end)
                    = Cardinality(KeysWithin(alloc_map[id], start, end, pointer_size))

\* some recorded pointer of alloc starts less than 8 bytes before or after o, not at o
Misaligned(alloc, o) ==
    \E k \in DOMAIN alloc.relocations :
        LET dist == IF k > o THEN k - o ELSE o - k IN 0 < dist /\ dist < 8

\* C19: for a live allocation and an in-bounds pointer-sized range at offset o,
\* read_ptr fails with ReadPointerAsBytes exactly when some relocation key k has
\* 0 < |k - o| < 8; otherwise it fails with ReadBytesAsPointer when there is no
\* relocation at o, and otherwise returns the pointer made of the AllocId recorded
\* at o and the offset decoded from the bytes; a pointer it returns always carries
\* the AllocId recorded at exactly o.
C19_ReadPtrClasses ==
    (/\ Done("read_ptr")
     /\ call.ptr.alloc_id \in DOMAIN alloc_map
     /\ call.ptr.offset + pointer_size <= Len(alloc_map[call.ptr.alloc_id].bytes)) =>
        LET alloc == alloc_map[call.ptr.alloc_id]
            o == call.ptr.offset
        IN  /\ result.err = "ReadPointerAsBytes" <=> Misaligned(alloc, o)
            /\ (~Misaligned(alloc, o) /\ o \notin DOMAIN alloc.relocations)
                  => result.err = "ReadBytesAsPointer"
            /\ (~Misaligned(alloc, o) /\ o \in DOMAIN alloc.relocations)
                  => result = Ok(Pointer(alloc.relocations[o],
                                         read_uint_le(slice(alloc.bytes, o, o + 8))))
            /\ IsOk(result) =>
                  /\ o \in DOMAIN alloc.relocations
                  /\ result.val.alloc_id = alloc.relocations[o]

\* a pointer is read one byte before the offset where one is recorded
C19_Witness ==
    /\ Done("read_ptr")
    /\ result.err = "ReadPointerAsBytes"
    /\ call.ptr.alloc_id \in DOMAIN alloc_map
    /\ call.ptr.offset + 1 \in DOMAIN alloc_map[call.ptr.alloc_id].relocations
    /\ alloc_map[call.ptr.alloc_id].relocations[call.ptr.offset + 1] # call.ptr.alloc_id

ReadOps == {"read_bool", "read_int", "read_uint", "read_isize", "read_usize", "read_ptr"}

WriteOps ==
    {"write_bytes", "write_bool", "write_int", "write_uint", "write_isize",
     "write_usize", "write_primval", "write_ptr"}

\* every allocation but keep is as it was before the call
OthersUnchanged(keep) ==
    /\ DOMAIN alloc_map = DOMAIN old_map
    /\ \A id \in DOMAIN old_map : id # keep => alloc_map[id] = old_map[id]

\* in allocation id, only the bytes of [start, start + w) may differ from before
BytesFrame(id, start, w) ==
    /\ Len(alloc_map[id].bytes) = Len(old_map[id].bytes)
    /\ \A i \in 1..Len(old_map[id].bytes) :
          (i <= start \/ i > start + w) => alloc_map[id].bytes[i] = old_map[id].bytes[i]

\* in allocation id, only the relocations at the keys of changed may differ from before
RelocationsFrame(id, changed) ==
    LET new == alloc_map[id].relocations
        old == old_map[id].relocations
    IN  /\ DOMAIN new \ changed = DOMAIN old \ changed
        /\ \A k \in DOMAIN old \ changed : new[k] = old[k]

\* C20: a read leaves the whole Memory state unchanged; allocate leaves every
\* existing allocation's bytes and relocations unchanged; a successful write_bytes,
\* write_bool, write_int, write_uint (and write_isize, write_usize) or write_ptr
\* changes only bytes inside the written range of the target allocation and, for
\* write_ptr alone, the one relocation at dest.offset; a successful copy changes only
\* the bytes of the destination range and the relocations whose keys lie in it, and
\* leaves every other allocation, the source included when it is another one,
\* unchanged.
C20_Frame ==
    /\ (pc = "done" /\ call.op \in ReadOps) =>
          /\ alloc_map = old_map
          /\ next_id = old_next
    /\ Done("allocate") =>
          \A id \in DOMAIN old_map : alloc_map[id] = old_map[id]
    /\ (pc = "done" /\ call.op \in WriteOps /\ IsOk(result)) =>
          /\ next_id = old_next
          /\ OthersUnchanged(call.ptr.alloc_id)
          /\ BytesFrame(call.ptr.alloc_id, call.ptr.offset, AccessSize)
          /\ RelocationsFrame(call.ptr.alloc_id,
                              IF call.op = "write_ptr" THEN {call.ptr.offset} ELSE {})
    /\ (Done("copy") /\ IsOk(result)) =>
          /\ next_id = old_next
          /\ OthersUnchanged(call.ptr2.alloc_id)
          /\ BytesFrame(call.ptr2.alloc_id, call.ptr2.offset, call.size)
          /\ RelocationsFrame(call.ptr2.alloc_id,
                              call.ptr2.offset..(call.ptr2.offset + call.size - 1))

\* a copy has carried a pointer from one allocation into the middle of another one
C20_Witness ==
    /\ Done("copy")
    /\ IsOk(result)
    /\ call.ptr.alloc_id # call.ptr2.alloc_id
    /\ call.ptr2.offset > 0
    /\ call.size > 0
    /\ alloc_map[call.ptr2.alloc_id].bytes # old_map[call.ptr2.alloc_id].bytes
    /\ DOMAIN alloc_map[call.ptr2.alloc_id].relocations
          # DOMAIN old_map[call.ptr2.alloc_id].relocations

====
